---- MODULE Spec2Model ----
(***************************************************************************)
(* State-machine model of the file-transfer repository:                    *)
(*   - cleanup_old_files.py : the batch retention job (specification Spec) *)
(*   - app.py               : the interactive session (SpecUI) and two     *)
(*                            racing get_folder_id calls (SpecRace)        *)
(* The remote store (Google Drive) is the environment: its matching        *)
(* folders, the objects with their parent and modifiedTime, and a clock.   *)
(* Time is counted in seconds.                                             *)
(***************************************************************************)
EXTENDS Integers, Sequences, FiniteSets, TLC

\* ---------------------------------------------------------------- constants
MAX_AGE_DAYS == 7
PageSize == 100

\* ------------------------------------------------------------------- bounds
MaxFiles == 3
MaxFolders == 2
MaxTicks == 1
MaxItems == 3
MaxActions == 2
MaxCalls == 2

SecondsPerDay == 24 * 60 * 60
MaxAge == MAX_AGE_DAYS * SecondsPerDay
\* the clock value when a run starts
T0 == MaxAge + 10

VARIABLES
    \* the remote store
    folders,        \* matching non-trashed folders, in the store's listing order
    files,          \* non-trashed objects: records [id, parent, mtime]
    clock,          \* "now" (UTC seconds)
    \* cleanup_old_files.py
    env,            \* which credential environment variables are set
    pc,             \* position of the batch job
    credIn,         \* what the credential library reported (valid, expired, refreshOk)
    credState,      \* outcome of get_credentials
    storeCalls,     \* kinds of store call issued so far
    folder_id,      \* result of get_folder_id (0 is None)
    listing,        \* result of list_files: the snapshot
    now,            \* datetime.now() read when the cutoff is computed
    cutoff_date,
    idx,            \* loop position in the snapshot (1-based)
    deleted_count,
    attempted,      \* ids for which delete_file was called
    failedId,       \* id whose delete raised (0: none)
    failure,        \* why the run aborted ("none": it did not)
    exitCode,       \* process exit status (-1 while running)
    \* app.py: one interactive session
    uiPc,           \* position of the script run ("idle": waiting for the user)
    click,          \* the widget that triggered this run
    selected,       \* number of files in the uploader (uploaded_files)
    batch,          \* number of items of the latest upload loop
    target,         \* id whose delete button was pressed
    cache,          \* st.cache_data entry of get_folder_id (0: none)
    ui_folder_id,
    item,           \* upload loop position (1-based)
    outcomes,       \* per item of the batch: "ok" or "fail"
    errors,         \* items reported with st.error, in order
    success_count,
    displayed,      \* ids of the listing on screen, in order
    view,           \* what the download tab shows
    dirty,          \* a mutation succeeded and st.cache_data.clear() has not run since
    stale,          \* a mutation succeeded and list_files has not run since
    justUploaded,   \* ids created by the latest upload batch
    deletedIds,     \* ids deleted by this session
    actionsLeft,    \* user interactions still to come
    nextId,         \* next object id the store assigns
    createCalls,    \* create-folder calls issued
    queries,        \* folder listings answered to get_folder_id
    returned,       \* ids get_folder_id has returned
    \* app.py: get_folder_id bodies running concurrently
    rpc,            \* per caller: "idle", "listed", "done", "failed"
    rseen,          \* per caller: the folder listing it received
    rret,           \* per caller: the id it returned (0: none yet)
    rcalls,         \* per caller: calls started
    rcreates        \* per caller: create-folder calls issued

storeVars == <<folders, files, clock>>
jobVars == <<env, pc, credIn, credState, storeCalls, folder_id, listing, now,
             cutoff_date, idx, deleted_count, attempted, failedId, failure, exitCode>>
uiVars == <<uiPc, click, selected, batch, target, cache, ui_folder_id, item, outcomes, errors,
            success_count, displayed, view, dirty, stale, justUploaded, deletedIds,
            actionsLeft, nextId, createCalls, queries, returned>>
raceVars == <<rpc, rseen, rret, rcalls, rcreates>>
vars == <<storeVars, jobVars, uiVars, raceVars>>

\* ------------------------------------------------------------ remote store
\* orderBy="modifiedTime asc"; ties in the store's own order (by id)
Before(x, y) == x.mtime < y.mtime \/ (x.mtime = y.mtime /\ x.id <= y.id)

\* the first n objects of S in that order
FirstAsc(S, n) ==
    LET ranked == {<<Cardinality({y \in S : Before(y, x)}), x>> : x \in S}
        m == IF Cardinality(S) < n THEN Cardinality(S) ELSE n
    IN [k \in 1..m |->
            LET r == CHOOSE q \in ranked : q[1] = k
            IN [id |-> r[2].id, mtime |-> r[2].mtime]]

\* list_files: ONE files().list call with pageSize=100, no page token followed
list_files(fs, folder) == FirstAsc({f \in fs : f.parent = folder}, PageSize)

\* -------------------------------------------------------- get_credentials
Required == {"token", "refresh_token", "client_id", "client_secret"}
Missing(e) == {k \in Required : ~e[k]}

\* faulty variant: the validity check is skipped, whatever was loaded is returned
get_credentials_unchecked(e, valid, expired, refreshOk) ==
    IF Missing(e) # {} THEN [raised |-> TRUE, state |-> "missing"]
    ELSE [raised |-> FALSE, state |-> IF valid THEN "valid" ELSE "invalid"]

get_credentials(e, valid, expired, refreshOk) ==
    IF Missing(e) # {} THEN [raised |-> TRUE, state |-> "missing"]
    ELSE IF valid THEN [raised |-> FALSE, state |-> "valid"]
    ELSE IF expired /\ e["refresh_token"]
         THEN IF refreshOk THEN [raised |-> FALSE, state |-> "refreshed"]
              ELSE [raised |-> TRUE, state |-> "refresh_failed"]
    ELSE [raised |-> TRUE, state |-> "invalid"]

\* ---------------------------------------------------------- batch job: Init
AgeOffsets == {-1, 0, 1}
BulkSizes == {0, PageSize - 1}

\* B objects well past the cutoff, then n objects around the boundary, all in folder p
\* (with no matching folder, p is a folder of another name)
StoreFiles(B, n, off, p) ==
    {[id |-> i, parent |-> p, mtime |-> T0 - MaxAge - 2] : i \in 1..B}
    \cup {[id |-> B + i, parent |-> p, mtime |-> T0 - MaxAge - off[i]] : i \in 1..n}

JobStart ==
    /\ pc = "start"
    /\ credIn = [valid |-> FALSE, expired |-> FALSE, refreshOk |-> FALSE]
    /\ credState = "none"
    /\ storeCalls = {}
    /\ folder_id = 0
    /\ listing = <<>>
    /\ now = 0
    /\ cutoff_date = 0
    /\ idx = 0
    /\ deleted_count = 0
    /\ attempted = {}
    /\ failedId = 0
    /\ failure = "none"
    /\ exitCode = -1

Callers == {1, 2}

\* the session has not started
UIOff ==
    /\ uiPc = "off" /\ click = "none" /\ selected = 0 /\ batch = 0 /\ target = 0 /\ cache = 0
    /\ ui_folder_id = 0 /\ item = 0 /\ outcomes = <<>> /\ errors = <<>>
    /\ success_count = 0 /\ displayed = <<>> /\ view = "none" /\ dirty = FALSE
    /\ stale = FALSE /\ justUploaded = {} /\ deletedIds = {} /\ actionsLeft = 0
    /\ nextId = 0 /\ createCalls = 0 /\ queries = 0 /\ returned = {}

\* nobody is calling get_folder_id concurrently
RaceOff ==
    /\ rpc = [c \in Callers |-> "off"]
    /\ rseen = [c \in Callers |-> <<>>]
    /\ rret = [c \in Callers |-> 0]
    /\ rcalls = [c \in Callers |-> 0]
    /\ rcreates = [c \in Callers |-> 0]

Init ==
    /\ UIOff
    /\ RaceOff
    /\ clock = T0
    /\ env \in [Required -> BOOLEAN]
    /\ \E nf \in 0..MaxFolders :
        /\ folders = [i \in 1..nf |-> i]
        /\ \E p \in 1..(IF nf = 0 THEN 1 ELSE nf), B \in BulkSizes, n \in 0..MaxFiles :
              \E off \in [1..n -> AgeOffsets] : files = StoreFiles(B, n, off, p)
    /\ JobStart

\* ------------------------------------------------------- batch job: actions
Abort(why) ==
    /\ failure' = why
    /\ pc' = "exit"
    /\ exitCode' = 1

\* get_drive_service -> get_credentials
GetDriveService ==
    /\ pc = "start"
    /\ \E valid \in BOOLEAN, expired \in BOOLEAN :
       \E refreshOk \in (IF ~valid /\ expired THEN BOOLEAN ELSE {FALSE}) :
        /\ valid => ~expired
        /\ credIn' = [valid |-> valid, expired |-> expired, refreshOk |-> refreshOk]
        /\ LET r == get_credentials(env, valid, expired, refreshOk)
           IN /\ credState' = r.state
              /\ IF r.raised
                 THEN Abort("creds")
                 ELSE pc' = "folder" /\ UNCHANGED <<failure, exitCode>>
    /\ UNCHANGED <<storeVars, env, storeCalls, folder_id, listing, now, cutoff_date,
                   idx, deleted_count, attempted, failedId>>
    /\ UNCHANGED <<uiVars, raceVars>>

\* get_folder_id: the first listed folder, None when there is none
FolderLookup(fl) == IF fl = <<>> THEN 0 ELSE Head(fl)
\* faulty variant: the missing-folder check is dropped
NoFolder_never(fid) == FALSE
\* cleanup_old_files: "if not folder_id"
NoFolder(fid) == fid = 0

GetFolderId ==
    /\ pc = "folder"
    /\ storeCalls' = storeCalls \cup {"listFolders"}
    /\ \/ /\ Abort("folderList")
          /\ UNCHANGED <<folder_id, deleted_count>>
       \/ /\ folder_id' = FolderLookup(folders)
          /\ IF NoFolder(folder_id')
             THEN pc' = "exit" /\ exitCode' = 0 /\ deleted_count' = 0
             ELSE pc' = "list" /\ UNCHANGED <<exitCode, deleted_count>>
          /\ UNCHANGED failure
    /\ UNCHANGED <<storeVars, env, credIn, credState, listing, now, cutoff_date,
                   idx, attempted, failedId>>
    /\ UNCHANGED <<uiVars, raceVars>>

ListFiles ==
    /\ pc = "list"
    /\ storeCalls' = storeCalls \cup {"listObjects"}
    /\ \/ /\ Abort("objectList")
          /\ UNCHANGED listing
       \/ /\ listing' = list_files(files, folder_id)
          /\ pc' = "cutoff"
          /\ UNCHANGED <<failure, exitCode>>
    /\ UNCHANGED <<storeVars, env, credIn, credState, folder_id, now, cutoff_date,
                   idx, deleted_count, attempted, failedId>>
    /\ UNCHANGED <<uiVars, raceVars>>

ComputeCutoff ==
    /\ pc = "cutoff"
    /\ now' = clock
    /\ cutoff_date' = clock - MaxAge
    /\ deleted_count' = 0
    /\ idx' = 1
    /\ pc' = "loop"
    /\ UNCHANGED <<storeVars, env, credIn, credState, storeCalls, folder_id, listing,
                   attempted, failedId, failure, exitCode>>
    /\ UNCHANGED <<uiVars, raceVars>>

\* faulty variant: the boundary is included
IsOld_inclusive(mtime, cutoff) == mtime <= cutoff
\* "if modified_time < cutoff_date"
IsOld(mtime, cutoff) == mtime < cutoff

KeepFile ==
    /\ pc = "loop"
    /\ idx <= Len(listing)
    /\ ~IsOld(listing[idx].mtime, cutoff_date)
    /\ idx' = idx + 1
    /\ UNCHANGED <<storeVars, env, pc, credIn, credState, storeCalls, folder_id, listing,
                   now, cutoff_date, deleted_count, attempted, failedId, failure, exitCode>>
    /\ UNCHANGED <<uiVars, raceVars>>

\* delete_file succeeds: the object is gone and the count goes up
DeleteFile ==
    /\ pc = "loop"
    /\ idx <= Len(listing)
    /\ IsOld(listing[idx].mtime, cutoff_date)
    /\ storeCalls' = storeCalls \cup {"delete"}
    /\ attempted' = attempted \cup {listing[idx].id}
    /\ files' = {f \in files : f.id # listing[idx].id}
    /\ deleted_count' = deleted_count + 1
    /\ idx' = idx + 1
    /\ UNCHANGED <<folders, clock, env, pc, credIn, credState, folder_id, listing, now,
                   cutoff_date, failedId, failure, exitCode>>
    /\ UNCHANGED <<uiVars, raceVars>>

\* delete_file raises: the object was removed by another actor after the snapshot
\* (gone = TRUE, HttpError 404) or the call failed in transport (gone = FALSE).
\* Nothing in cleanup_old_files catches it: it reaches the handler of __main__.
DeleteFails ==
    /\ pc = "loop"
    /\ idx <= Len(listing)
    /\ IsOld(listing[idx].mtime, cutoff_date)
    /\ storeCalls' = storeCalls \cup {"delete"}
    /\ attempted' = attempted \cup {listing[idx].id}
    /\ failedId' = listing[idx].id
    /\ \E gone \in BOOLEAN :
        files' = IF gone THEN {f \in files : f.id # listing[idx].id} ELSE files
    /\ Abort("delete")
    /\ UNCHANGED <<folders, clock, env, credIn, credState, folder_id, listing, now,
                   cutoff_date, idx, deleted_count>>
    /\ UNCHANGED <<uiVars, raceVars>>

\* the loop is over: cleanup_old_files returns deleted_count, the job exits 0
Finish ==
    /\ pc = "loop"
    /\ idx > Len(listing)
    /\ pc' = "exit"
    /\ exitCode' = 0
    /\ UNCHANGED <<storeVars, env, credIn, credState, storeCalls, folder_id, listing, now,
                   cutoff_date, idx, deleted_count, attempted, failedId, failure>>
    /\ UNCHANGED <<uiVars, raceVars>>

\* time passes while the job runs; the clock is read for a decision only at
\* line 110 (lines 122 and 129 read it for the log), so later ticks are left out
Tick ==
    /\ pc \in {"start", "folder", "list", "cutoff"}
    /\ clock < T0 + MaxTicks
    /\ clock' = clock + 1
    /\ UNCHANGED <<folders, files, jobVars>>
    /\ UNCHANGED <<uiVars, raceVars>>

Next ==
    \/ GetDriveService
    \/ GetFolderId
    \/ ListFiles
    \/ ComputeCutoff
    \/ KeepFile
    \/ DeleteFile
    \/ DeleteFails
    \/ Finish
    \/ Tick

Spec == Init /\ [][Next]_vars

\* ======================================================================
\* app.py: the interactive session
\* ======================================================================
JobOff ==
    /\ env = [k \in Required |-> TRUE]
    /\ pc = "off"
    /\ credIn = [valid |-> FALSE, expired |-> FALSE, refreshOk |-> FALSE]
    /\ credState = "none" /\ storeCalls = {} /\ folder_id = 0 /\ listing = <<>>
    /\ now = 0 /\ cutoff_date = 0 /\ idx = 0 /\ deleted_count = 0 /\ attempted = {}
    /\ failedId = 0 /\ failure = "none" /\ exitCode = -1

\* orderBy="modifiedTime desc"; ties in the store's own order (by id)
After(x, y) == x.mtime > y.mtime \/ (x.mtime = y.mtime /\ x.id <= y.id)

\* the ids of the first n objects of S in that order
FirstDesc(S, n) ==
    LET ranked == {<<Cardinality({y \in S : After(y, x)}), x>> : x \in S}
        m == IF Cardinality(S) < n THEN Cardinality(S) ELSE n
    IN [k \in 1..m |-> (CHOOSE q \in ranked : q[1] = k)[2].id]

\* app.list_files: one files().list call with pageSize=100, newest first
ui_list_files(fs, folder) == FirstDesc({f \in fs : f.parent = folder}, PageSize)

Range(s) == {s[k] : k \in 1..Len(s)}

\* faulty variant: the "if files" test is missing, a folder is created on every call
MustCreate_always(fl) == TRUE
\* get_folder_id: the create path is taken only when the listing is empty
MustCreate(fl) == fl = <<>>

\* files().create of a folder: the store assigns a fresh id and lists it last
NewFolderId(fl) == Len(fl) + 1

InitUI ==
    /\ JobOff
    /\ RaceOff
    /\ clock = T0
    /\ \E nf \in 0..MaxFolders :
        /\ folders = [i \in 1..nf |-> i]
        /\ \E n0 \in 0..(IF nf = 0 THEN 0 ELSE 1) :
            /\ files = {[id |-> i, parent |-> 1, mtime |-> T0 - 1] : i \in 1..n0}
            /\ nextId = n0 + 1
    \* the first script run of the session
    /\ uiPc = "resolve" /\ click = "none" /\ selected = 0 /\ batch = 0 /\ target = 0 /\ cache = 0
    /\ ui_folder_id = 0 /\ item = 0 /\ outcomes = <<>> /\ errors = <<>>
    /\ success_count = 0 /\ displayed = <<>> /\ view = "none" /\ dirty = FALSE
    /\ stale = FALSE /\ justUploaded = {} /\ deletedIds = {} /\ actionsLeft = MaxActions
    /\ createCalls = 0 /\ queries = 0 /\ returned = {}

\* where the script goes once folder_id is known
AfterResolve == IF click = "upload" THEN "begin" ELSE "tab2"

\* line 145, get_folder_id answered from st.cache_data
ResolveCached ==
    /\ uiPc = "resolve"
    /\ cache # 0
    /\ ui_folder_id' = cache
    /\ returned' = returned \cup {cache}
    /\ uiPc' = AfterResolve
    /\ UNCHANGED <<storeVars, jobVars, raceVars, click, selected, batch, target, cache, item, outcomes,
                   errors, success_count, displayed, view, dirty, stale, justUploaded,
                   deletedIds, actionsLeft, nextId, createCalls, queries>>

\* line 145, get_folder_id runs: list the folders, create one when there is none
ResolveFolder ==
    /\ uiPc = "resolve"
    /\ cache = 0
    /\ queries' = queries + 1
    /\ IF MustCreate(folders)
       THEN /\ folders' = Append(folders, NewFolderId(folders))
            /\ createCalls' = createCalls + 1
            /\ ui_folder_id' = NewFolderId(folders)
       ELSE /\ ui_folder_id' = Head(folders)
            /\ UNCHANGED <<folders, createCalls>>
    /\ cache' = ui_folder_id'
    /\ returned' = returned \cup {ui_folder_id'}
    /\ uiPc' = AfterResolve
    /\ UNCHANGED <<files, clock, jobVars, raceVars, click, selected, batch, target, item, outcomes,
                   errors, success_count, displayed, view, dirty, stale, justUploaded,
                   deletedIds, actionsLeft, nextId>>

\* lines 146-148: the folder listing or the create call raised; st.stop()
ResolveFails ==
    /\ uiPc = "resolve"
    /\ cache = 0
    /\ view' = "connectError"
    /\ displayed' = <<>>
    /\ uiPc' = "idle"
    /\ UNCHANGED <<storeVars, jobVars, raceVars, click, selected, batch, target, cache,
                   ui_folder_id, item, outcomes, errors, success_count, dirty, stale,
                   justUploaded, deletedIds, actionsLeft, nextId, createCalls, queries,
                   returned>>

\* lines 163-168: the button was pressed with files selected; the loop starts
BeginUpload ==
    /\ uiPc = "begin"
    /\ batch' = selected
    /\ item' = 1
    /\ success_count' = 0
    /\ outcomes' = <<>>
    /\ errors' = <<>>
    /\ justUploaded' = {}
    /\ uiPc' = "upload"
    /\ UNCHANGED <<storeVars, jobVars, raceVars, click, selected, target, cache,
                   ui_folder_id, displayed, view, dirty, stale, deletedIds, actionsLeft,
                   nextId, createCalls, queries, returned>>

\* lines 169-178, one item of the batch that uploads
UploadItemOk ==
    /\ uiPc = "upload"
    /\ item <= batch
    /\ files' = files \cup {[id |-> nextId, parent |-> ui_folder_id, mtime |-> clock]}
    /\ nextId' = nextId + 1
    /\ clock' = clock + 1
    /\ success_count' = success_count + 1
    /\ outcomes' = Append(outcomes, "ok")
    /\ justUploaded' = justUploaded \cup {nextId}
    /\ dirty' = TRUE
    /\ stale' = TRUE
    /\ item' = item + 1
    /\ UNCHANGED <<folders, jobVars, raceVars, uiPc, click, selected, batch, target, cache,
                   ui_folder_id, errors, displayed, view, deletedIds, actionsLeft,
                   createCalls, queries, returned>>

\* faulty variant: no try/except around the item, the exception ends the loop
UploadItemFails_abort ==
    /\ uiPc = "upload"
    /\ item <= batch
    /\ outcomes' = Append(outcomes, "fail")
    /\ errors' = Append(errors, item)
    /\ item' = batch + 1
    /\ UNCHANGED <<storeVars, jobVars, raceVars, uiPc, click, selected, batch, target, cache,
                   ui_folder_id, success_count, displayed, view, dirty, stale,
                   justUploaded, deletedIds, actionsLeft, nextId, createCalls, queries,
                   returned>>

\* lines 171-178, one item whose read() or upload_file raises: st.error, next item
UploadItemFails ==
    /\ uiPc = "upload"
    /\ item <= batch
    /\ outcomes' = Append(outcomes, "fail")
    /\ errors' = Append(errors, item)
    /\ item' = item + 1
    /\ UNCHANGED <<storeVars, jobVars, raceVars, uiPc, click, selected, batch, target, cache,
                   ui_folder_id, success_count, displayed, view, dirty, stale,
                   justUploaded, deletedIds, actionsLeft, nextId, createCalls, queries,
                   returned>>

\* faulty variant: the cache is not cleared after the batch
UploadDone_noclear ==
    /\ uiPc = "upload"
    /\ item > batch
    /\ uiPc' = "tab2"
    /\ UNCHANGED <<storeVars, jobVars, raceVars, click, selected, batch, target, cache, dirty,
                   ui_folder_id, item, outcomes, errors, success_count, displayed, view,
                   stale, justUploaded, deletedIds, actionsLeft, nextId, createCalls,
                   queries, returned>>

\* lines 180-184: the loop is over; st.cache_data.clear() when something uploaded
UploadDone ==
    /\ uiPc = "upload"
    /\ item > batch
    /\ IF success_count > 0
       THEN cache' = 0 /\ dirty' = FALSE
       ELSE UNCHANGED <<cache, dirty>>
    /\ uiPc' = "tab2"
    /\ UNCHANGED <<storeVars, jobVars, raceVars, click, selected, batch, target, ui_folder_id,
                   item, outcomes, errors, success_count, displayed, view, stale,
                   justUploaded, deletedIds, actionsLeft, nextId, createCalls, queries,
                   returned>>

\* lines 192-194: the Refresh button: clear the cache and rerun the script
RefreshClick ==
    /\ uiPc = "tab2"
    /\ click = "refresh"
    /\ cache' = 0
    /\ dirty' = FALSE
    /\ click' = "none"
    /\ uiPc' = "resolve"
    /\ UNCHANGED <<storeVars, jobVars, raceVars, selected, batch, target, ui_folder_id, item,
                   outcomes, errors, success_count, displayed, view, stale, justUploaded,
                   deletedIds, actionsLeft, nextId, createCalls, queries, returned>>

\* lines 196-197: list_files answers and the rows are drawn
ShowListing ==
    /\ uiPc = "tab2"
    /\ click # "refresh"
    /\ displayed' = ui_list_files(files, ui_folder_id)
    /\ view' = "listing"
    /\ stale' = FALSE
    /\ uiPc' = IF click = "delete" /\ target \in Range(displayed') THEN "delete" ELSE "idle"
    /\ UNCHANGED <<storeVars, jobVars, raceVars, click, selected, batch, target, cache,
                   ui_folder_id, item, outcomes, errors, success_count, dirty,
                   justUploaded, deletedIds, actionsLeft, nextId, createCalls, queries,
                   returned>>

\* lines 198-200: list_files raised; files = [] and the error is shown
ListingFails ==
    /\ uiPc = "tab2"
    /\ click # "refresh"
    /\ displayed' = <<>>
    /\ view' = "listError"
    /\ uiPc' = "idle"
    /\ UNCHANGED <<storeVars, jobVars, raceVars, click, selected, batch, target, cache,
                   ui_folder_id, item, outcomes, errors, success_count, dirty, stale,
                   justUploaded, deletedIds, actionsLeft, nextId, createCalls, queries,
                   returned>>

\* lines 250-254: delete_file succeeded: clear the cache and rerun the script
DeleteClickOk ==
    /\ uiPc = "delete"
    /\ files' = {f \in files : f.id # target}
    /\ deletedIds' = deletedIds \cup {target}
    /\ justUploaded' = justUploaded \ {target}
    /\ stale' = TRUE
    /\ cache' = 0
    /\ dirty' = FALSE
    /\ click' = "none"
    /\ uiPc' = "resolve"
    /\ UNCHANGED <<folders, clock, jobVars, raceVars, selected, batch, target, ui_folder_id, item,
                   outcomes, errors, success_count, displayed, view, actionsLeft, nextId,
                   createCalls, queries, returned>>

\* lines 255-256: delete_file raised: st.error, the run goes on to its end
DeleteClickFails ==
    /\ uiPc = "delete"
    /\ uiPc' = "idle"
    /\ UNCHANGED <<storeVars, jobVars, raceVars, click, selected, batch, target, cache,
                   ui_folder_id, item, outcomes, errors, success_count, displayed, view,
                   dirty, stale, justUploaded, deletedIds, actionsLeft, nextId,
                   createCalls, queries, returned>>

\* the user presses "Upload All Files" with n files selected
ClickUpload ==
    /\ uiPc = "idle"
    /\ actionsLeft > 0
    /\ \E n \in 1..MaxItems : selected' = n
    /\ click' = "upload"
    /\ actionsLeft' = actionsLeft - 1
    /\ uiPc' = "resolve"
    /\ UNCHANGED <<storeVars, jobVars, raceVars, batch, target, cache, ui_folder_id, item,
                   outcomes, errors, success_count, justUploaded, displayed, view, dirty,
                   stale, deletedIds, nextId, createCalls, queries, returned>>

\* the user presses the delete button of a row on screen
ClickDelete ==
    /\ uiPc = "idle"
    /\ actionsLeft > 0
    /\ \E t \in Range(displayed) : target' = t
    /\ click' = "delete"
    /\ actionsLeft' = actionsLeft - 1
    /\ uiPc' = "resolve"
    /\ UNCHANGED <<storeVars, jobVars, raceVars, selected, batch, cache, ui_folder_id, item,
                   outcomes, errors, success_count, displayed, view, dirty, stale,
                   justUploaded, deletedIds, nextId, createCalls, queries, returned>>

\* the user presses Refresh, or any other widget reruns the script
ClickOther ==
    /\ uiPc = "idle"
    /\ actionsLeft > 0
    /\ \E w \in {"refresh", "none"} : click' = w
    /\ actionsLeft' = actionsLeft - 1
    /\ uiPc' = "resolve"
    /\ UNCHANGED <<storeVars, jobVars, raceVars, selected, batch, target, cache, ui_folder_id,
                   item, outcomes, errors, success_count, displayed, view, dirty, stale,
                   justUploaded, deletedIds, nextId, createCalls, queries, returned>>

\* ttl=60 runs out
CacheExpires ==
    /\ cache # 0
    /\ cache' = 0
    /\ UNCHANGED <<storeVars, jobVars, raceVars, uiPc, click, selected, batch, target,
                   ui_folder_id, item, outcomes, errors, success_count, displayed, view,
                   dirty, stale, justUploaded, deletedIds, actionsLeft, nextId,
                   createCalls, queries, returned>>

NextUI ==
    \/ ResolveCached
    \/ ResolveFolder
    \/ ResolveFails
    \/ BeginUpload
    \/ UploadItemOk
    \/ UploadItemFails
    \/ UploadDone
    \/ RefreshClick
    \/ ShowListing
    \/ ListingFails
    \/ DeleteClickOk
    \/ DeleteClickFails
    \/ ClickUpload
    \/ ClickDelete
    \/ ClickOther
    \/ CacheExpires

SpecUI == InitUI /\ [][NextUI]_vars

\* ======================================================================
\* app.py: get_folder_id called by two callers at once (the cache aside)
\* ======================================================================
InitRace ==
    /\ JobOff
    /\ UIOff
    /\ clock = T0
    /\ files = {}
    /\ \E nf \in 0..MaxFolders : folders = [i \in 1..nf |-> i]
    /\ rpc = [c \in Callers |-> "idle"]
    /\ rseen = [c \in Callers |-> <<>>]
    /\ rret = [c \in Callers |-> 0]
    /\ rcalls = [c \in Callers |-> 0]
    /\ rcreates = [c \in Callers |-> 0]

\* faulty variant: the listing is taken again, atomically with the create
Observed_atomic(c) == folders
\* lines 62-65: the decision rests on the listing the caller received earlier
Observed(c) == rseen[c]

RaceCall(c) ==
    /\ rpc[c] \in {"idle", "done", "failed"}
    /\ rcalls[c] < MaxCalls
    /\ rcalls' = [rcalls EXCEPT ![c] = @ + 1]
    /\ rpc' = [rpc EXCEPT ![c] = "calling"]
    /\ rseen' = [rseen EXCEPT ![c] = <<>>]
    /\ rret' = [rret EXCEPT ![c] = 0]
    /\ UNCHANGED <<storeVars, jobVars, uiVars, rcreates>>

\* line 62: the folder listing is answered
RaceList(c) ==
    /\ rpc[c] = "calling"
    /\ rseen' = [rseen EXCEPT ![c] = folders]
    /\ rpc' = [rpc EXCEPT ![c] = "listed"]
    /\ UNCHANGED <<storeVars, jobVars, uiVars, rret, rcalls, rcreates>>

\* lines 65-66: a folder was listed, its id is returned
RaceReturn(c) ==
    /\ rpc[c] = "listed"
    /\ ~MustCreate(Observed(c))
    /\ rret' = [rret EXCEPT ![c] = Head(Observed(c))]
    /\ rpc' = [rpc EXCEPT ![c] = "done"]
    /\ UNCHANGED <<storeVars, jobVars, uiVars, rseen, rcalls, rcreates>>

\* lines 68-73: none was listed, one is created and its id returned
RaceCreate(c) ==
    /\ rpc[c] = "listed"
    /\ MustCreate(Observed(c))
    /\ folders' = Append(folders, NewFolderId(folders))
    /\ rcreates' = [rcreates EXCEPT ![c] = @ + 1]
    /\ rret' = [rret EXCEPT ![c] = NewFolderId(folders)]
    /\ rpc' = [rpc EXCEPT ![c] = "done"]
    /\ UNCHANGED <<files, clock, jobVars, uiVars, rseen, rcalls>>

\* the listing or the create call raises
RaceFails(c) ==
    /\ \/ rpc[c] = "calling"
       \/ rpc[c] = "listed" /\ MustCreate(Observed(c))
    /\ rpc' = [rpc EXCEPT ![c] = "failed"]
    /\ UNCHANGED <<storeVars, jobVars, uiVars, rseen, rret, rcalls, rcreates>>

NextRace ==
    \/ \E c \in Callers : RaceCall(c)
    \/ \E c \in Callers : RaceList(c)
    \/ \E c \in Callers : RaceReturn(c)
    \/ \E c \in Callers : RaceCreate(c)
    \/ \E c \in Callers : RaceFails(c)

SpecRace == InitRace /\ [][NextRace]_vars

\* ------------------------------------------------------------------ claims
Ids(fs) == {f.id : f \in fs}
Listed == "listObjects" \in storeCalls /\ failure # "objectList"

\* C1: when the delete of one listed object fails, the failure stays with that
\* object: the sweep still runs to the end of the snapshot and every other listed
\* object older than the maximum age is deleted.
C1_DeleteFailureIsolated ==
    (pc = "exit" /\ failedId # 0) =>
        /\ idx > Len(listing)
        /\ \A k \in 1..Len(listing) :
            (listing[k].id # failedId /\ now - listing[k].mtime > MaxAge)
                => listing[k].id \notin Ids(files)

\* C2: the job exits 0 on every run that got through credential resolution and
\* the listings, whatever the per-object deletions did, and exits non-zero only
\* when credential resolution or a listing failed.
C2_ExitStatus ==
    pc = "exit" => (exitCode = 0 <=> failure \notin {"creds", "folderList", "objectList"})

C4_SweepComplete ==
    (pc = "exit" /\ failure = "none" /\ Listed) =>
        \A f \in files : f.parent = folder_id => ~(T0 - f.mtime > MaxAge)

\* C7: when the folder listing finds no folder of the configured name, the job
\* returns a count of 0 and exits 0, having listed no objects and deleted nothing.
C7_MissingFolder ==
    ("listFolders" \in storeCalls /\ failure # "folderList" /\ folders = <<>>) =>
        /\ pc = "exit"
        /\ exitCode = 0
        /\ deleted_count = 0
        /\ storeCalls = {"listFolders"}
        /\ attempted = {}

C7_Witness ==
    /\ pc = "exit" /\ exitCode = 0 /\ folders = <<>> /\ files # {}
    /\ "listFolders" \in storeCalls

\* the credential is valid, or was expired and has been refreshed
CredUsable == Missing(env) = {} /\ (credIn.valid \/ (credIn.expired /\ credIn.refreshOk))

\* C8: a store call is issued only after get_credentials returned a credential
\* that is valid or was expired and refreshed; with a required field missing, an
\* invalid credential that cannot be refreshed, or a failed refresh, the run stops
\* with exit code 1 before any store call.
C8_CredentialFailFast ==
    /\ storeCalls # {} => (CredUsable /\ credState \in {"valid", "refreshed"})
    /\ (pc # "start" /\ ~CredUsable) =>
        (pc = "exit" /\ exitCode = 1 /\ failure = "creds" /\ storeCalls = {})

C8_Witness ==
    /\ credState = "refreshed" /\ ~credIn.valid
    /\ "delete" \in storeCalls

\* folders the account held before the session (only get_folder_id creates any)
InitialFolders == Len(folders) - createCalls

\* C5: from an account without a matching folder, get_folder_id calls made one
\* after another create exactly one folder and all return its id; with a matching
\* folder present, a call returns the first listed folder and creates nothing.
C5_FolderResolutionIdempotent ==
    /\ InitialFolders = 0 =>
        /\ createCalls <= 1
        /\ Cardinality(returned) <= 1
        /\ returned # {} => (createCalls = 1 /\ returned = {folders[1]})
    /\ InitialFolders >= 1 =>
        (createCalls = 0 /\ returned \subseteq {Head(folders)})

C5_Witness ==
    /\ InitialFolders = 0 /\ createCalls = 1
    /\ queries >= 2 /\ returned = {folders[1]}

OkItems(s) == {k \in 1..Len(s) : s[k] = "ok"}
FailedItems(s) == {k \in 1..Len(s) : s[k] = "fail"}

\* C6: the upload loop attempts every item of the batch exactly once whatever
\* the earlier items did, reports each failure for its own item and counts the
\* items that uploaded.
C6_BatchUploadIsolation ==
    /\ uiPc = "upload" => (item <= batch + 1 /\ Len(outcomes) = item - 1)
    /\ uiPc \in {"tab2", "idle", "delete", "resolve", "begin"} => Len(outcomes) = batch
    /\ success_count = Cardinality(OkItems(outcomes))
    /\ Range(errors) = FailedItems(outcomes)
    /\ Len(errors) = Cardinality(FailedItems(outcomes))
    /\ uiPc \in {"upload", "tab2"} /\ click = "upload" =>
        (Cardinality(justUploaded) = success_count /\ justUploaded \subseteq Ids(files))

C6_Witness ==
    /\ uiPc = "tab2" /\ click = "upload"
    /\ outcomes = <<"ok", "fail", "ok">>
    /\ errors = <<2>>
    /\ success_count = 2

\* C9: two get_folder_id calls that both received an empty listing both create a
\* folder: the account then holds two folders of the name and the two callers
\* hold different ids.
C9_FirstCreationRace ==
    \A c \in Callers, d \in Callers :
        (c # d /\ rpc[c] = "done" /\ rpc[d] = "done" /\ rseen[c] = <<>> /\ rseen[d] = <<>>)
            => /\ rret[c] # rret[d]
               /\ {rret[c], rret[d]} \subseteq Range(folders)
               /\ Len(folders) = 2
               /\ rcreates[c] + rcreates[d] = 2

C9_Witness ==
    /\ rpc[1] = "done" /\ rpc[2] = "done"
    /\ rseen[1] = <<>> /\ rseen[2] = <<>>
    /\ Len(folders) = 2 /\ rret[1] # rret[2]

====
